---- MODULE Spec2Model ----
(***************************************************************************)
(* Model of the Yul simplification rule engine                             *)
(* (libyul/optimiser/SimplificationRules.{h,cpp}): the rule container with *)
(* its two lookup entry points, the two pattern classes Pattern (256 bit   *)
(* words, EVM instructions) and PatternEWasm (64 bit words, builtin        *)
(* names), the shared match group table and the reconstruction of          *)
(* expressions from patterns.                                              *)
(*                                                                         *)
(* Numbers are modelled at their full width: a u256 or uint64_t value is   *)
(* the set of the positions of its one-bits, so 5 is {0, 2} and 2^64 + 5   *)
(* is {0, 2, 64}.  Pointers to expressions are modelled by the expression  *)
(* they point to, the null pointer by the value nullptr.                   *)
(***************************************************************************)
EXTENDS Integers, Sequences, FiniteSets, TLC

VARIABLES
    ruleList,       \* what simplificationRuleList(A, B, C, W, X, Y, Z) returns in this process
    rules,          \* the function-local statics `rules` of the two lookup functions
    constructions,  \* per lookup function: how often its static finished construction
    last,           \* the last call made by the optimizer and what it returned
    replacement     \* the expression the caller built from the returned rule's action

vars == <<ruleList, rules, constructions, last, replacement>>

---------------------------------------------------------------------------
(* Words *)

WordSize == 256

WordSizeEWasm == 64

\* Bounds of the model: how many entries of the literal and variable pools the
\* optimizer's expressions are built from.
MaxLiterals == 5

MaxNames == 2

Max(S) == CHOOSE x \in S : \A y \in S : y <= x

\* A conversion to uint64_t that keeps every bit.
uint64_tWide(n) == n

\* uint64_t(u256): keeps the low 64 bits.
uint64_t(n) == {b \in n : b < WordSizeEWasm}

\* The value of a number below 2^9 as an integer (shift amounts, comparisons with a word size).
RECURSIVE ToNat(_)
ToNat(n) == IF n = {} THEN 0 ELSE LET b == Max(n) IN 2 ^ b + ToNat(n \ {b})


\* n < m on numbers.
Less(n, m) == LET d == (n \ m) \cup (m \ n) IN d # {} /\ Max(d) \in m

\* n << k and n >> k on words of w bits, 0 <= k < w.
Shl(n, k, w) == {b + k : b \in n} \cap (0 .. w - 1)

Shr(n, k, w) == {b - k : b \in n} \cap (0 .. w - 1)

---------------------------------------------------------------------------
(* Expressions (libyul/AsmData.h) *)

nullptr == [type |-> "nullptr"]

\* A number literal; its value is the YulString the source held: the digits and their base.
Literal(base, num) == [type |-> "Literal", kind |-> "Number", value |-> [base |-> base, digits |-> num]]

BoolLiteral(word) == [type |-> "Literal", kind |-> "Boolean", value |-> [base |-> "word", digits |-> word]]

Identifier(name) == [type |-> "Identifier", name |-> name]

FunctionCall(name, args) == [type |-> "FunctionCall", functionName |-> name, arguments |-> args]

FunctionalInstruction(instr, args) == [type |-> "FunctionalInstruction", instruction |-> instr, arguments |-> args]

\* u256(literal.value.str()) and valueOfNumberLiteral: the number the digits denote.
u256(value) == value.digits

valueOfNumberLiteral(lit) == u256(lit.value)

\* formatNumber: decimal up to 0x1000000, hexadecimal above.
formatNumber(n) == [base |-> IF Less({24}, n) THEN "hex" ELSE "dec", digits |-> n]

---------------------------------------------------------------------------
(* Dialects *)

\* The EVM dialect: "add" is a builtin that maps to the instruction ADD,
\* "datasize" a builtin without an instruction.
EVMDialect == [isEVM |-> TRUE, builtins |-> [add |-> {"ADD"}, datasize |-> {}]]

\* The Wasm dialect: its builtins carry no EVM instruction.
WasmDialect ==
    [isEVM |-> FALSE,
     builtins |-> [n \in {"i64.add", "i64.ne", "i64.ge_u", "i64.shl", "i64.shr_u"} |-> {}]]

\* Dialect::builtin(name) is not null.
HasBuiltin(dialect, name) == name \in DOMAIN dialect.builtins

\* Instructions that SemanticInformation does not let move.
NonMovableInstructions == {"GAS", "MLOAD", "SLOAD"}

\* SideEffectsCollector(_dialect, _expr).movable()
RECURSIVE movable(_, _)
movable(dialect, e) ==
    CASE e.type = "FunctionalInstruction" ->
            /\ e.instruction \notin NonMovableInstructions
            /\ \A i \in DOMAIN e.arguments : movable(dialect, e.arguments[i])
      [] e.type = "FunctionCall" ->
            /\ HasBuiltin(dialect, e.functionName)
            /\ \A i \in DOMAIN e.arguments : movable(dialect, e.arguments[i])
      [] OTHER -> TRUE

\* SyntacticallyEqual{}(a, b): the same tree, node by node.
RECURSIVE SyntacticallyEqual(_, _)
SyntacticallyEqual(a, b) ==
    /\ a.type = b.type
    /\ CASE a.type = "Literal" -> a.kind = b.kind /\ a.value = b.value
         [] a.type = "Identifier" -> a.name = b.name
         [] a.type = "FunctionCall" ->
                /\ a.functionName = b.functionName
                /\ Len(a.arguments) = Len(b.arguments)
                /\ \A i \in DOMAIN a.arguments : SyntacticallyEqual(a.arguments[i], b.arguments[i])
         [] a.type = "FunctionalInstruction" ->
                /\ a.instruction = b.instruction
                /\ Len(a.arguments) = Len(b.arguments)
                /\ \A i \in DOMAIN a.arguments : SyntacticallyEqual(a.arguments[i], b.arguments[i])
         [] OTHER -> FALSE

\* ASTCopier().translate(e): a fresh tree built node by node.
RECURSIVE translate(_)
translate(e) ==
    CASE e.type = "Literal" -> [type |-> "Literal", kind |-> e.kind, value |-> e.value]
      [] e.type = "Identifier" -> Identifier(e.name)
      [] e.type = "FunctionCall" ->
            FunctionCall(e.functionName, [i \in DOMAIN e.arguments |-> translate(e.arguments[i])])
      [] e.type = "FunctionalInstruction" ->
            FunctionalInstruction(e.instruction, [i \in DOMAIN e.arguments |-> translate(e.arguments[i])])

---------------------------------------------------------------------------
(* Patterns *)

\* m_data is a shared_ptr: {} when null, {v} when it holds v.
AnyPattern(group) ==
    [kind |-> "Any", instruction |-> "", data |-> {}, arguments |-> <<>>, matchGroup |-> group]

ConstantPattern(group) ==
    [kind |-> "Constant", instruction |-> "", data |-> {}, arguments |-> <<>>, matchGroup |-> group]

ValuePattern(v) ==
    [kind |-> "Constant", instruction |-> "", data |-> {v}, arguments |-> <<>>, matchGroup |-> 0]

OperationPattern(instr, args) ==
    [kind |-> "Operation", instruction |-> instr, data |-> {}, arguments |-> args, matchGroup |-> 0]

\* Pattern::setMatchGroup
setMatchGroup(p, group) == [p EXCEPT !.matchGroup = group]

\* The match group table std::map<unsigned, Expression const*>.
EmptyGroups == [g \in {} |-> nullptr]

\* (*m_matchGroups)[g] = e
Store(mg, g, e) == [x \in DOMAIN mg \cup {g} |-> IF x = g THEN e ELSE mg[x]]

\* (*m_matchGroups)[g] as a read: operator[] inserts a null entry for a missing key.
Touch(mg, g) == IF g \in DOMAIN mg THEN mg ELSE Store(mg, g, nullptr)

\* SimplificationRules::instructionAndArguments
instructionAndArguments(dialect, e) ==
    IF e.type = "FunctionalInstruction"
    THEN [found |-> TRUE, instruction |-> e.instruction, arguments |-> e.arguments]
    ELSE IF /\ e.type = "FunctionCall"
            /\ dialect.isEVM
            /\ HasBuiltin(dialect, e.functionName)
            /\ dialect.builtins[e.functionName] # {}
         THEN [found |-> TRUE,
               instruction |-> CHOOSE i \in dialect.builtins[e.functionName] : TRUE,
               arguments |-> e.arguments]
         ELSE [found |-> FALSE, instruction |-> "", arguments |-> <<>>]

\* A resolution that never looks a variable up.
ResolveNever(p, e, ssa) == e

\* The variable resolution at the head of matches: the SSA value of a variable,
\* for every pattern kind but Any.
Resolve(p, e, ssa) ==
    IF p.kind # "Any" /\ e.type = "Identifier" /\ e.name \in DOMAIN ssa /\ ssa[e.name] # nullptr
    THEN ssa[e.name]
    ELSE e

\* A match group part that stores the expression at every position carrying a
\* wildcard group, also when the group is bound already.
MatchGroupOverwrites(p, e, expr, dialect, mg) ==
    IF p.matchGroup = 0
    THEN [res |-> "true", mg |-> mg]
    ELSE IF p.matchGroup \in DOMAIN mg
         THEN IF p.kind # "Any"
              THEN [res |-> "throw", mg |-> mg]
              ELSE IF mg[p.matchGroup] = nullptr
                   THEN [res |-> "throw", mg |-> mg]
                   ELSE [res |-> IF SyntacticallyEqual(mg[p.matchGroup], e) /\ movable(dialect, e)
                                 THEN "true" ELSE "false",
                         mg |-> Store(mg, p.matchGroup, e)]
         ELSE IF p.kind = "Any"
              THEN [res |-> "true", mg |-> Store(mg, p.matchGroup, e)]
              ELSE IF p.kind # "Constant"
                   THEN [res |-> "throw", mg |-> mg]
                   ELSE [res |-> "true", mg |-> Store(mg, p.matchGroup, expr)]

\* The match group part without the movability test on a repeated group.
MatchGroupIdentical(p, e, expr, dialect, mg) ==
    IF p.matchGroup = 0
    THEN [res |-> "true", mg |-> mg]
    ELSE IF p.matchGroup \in DOMAIN mg
         THEN IF p.kind # "Any"
              THEN [res |-> "throw", mg |-> mg]
              ELSE IF mg[p.matchGroup] = nullptr
                   THEN [res |-> "throw", mg |-> mg]
                   ELSE [res |-> IF SyntacticallyEqual(mg[p.matchGroup], e) THEN "true" ELSE "false",
                         mg |-> mg]
         ELSE IF p.kind = "Any"
              THEN [res |-> "true", mg |-> Store(mg, p.matchGroup, e)]
              ELSE IF p.kind # "Constant"
                   THEN [res |-> "throw", mg |-> mg]
                   ELSE [res |-> "true", mg |-> Store(mg, p.matchGroup, expr)]

\* The match group part of matches; e is _expr, expr the resolved expression.
MatchGroup(p, e, expr, dialect, mg) ==
    IF p.matchGroup = 0
    THEN [res |-> "true", mg |-> mg]
    ELSE IF p.matchGroup \in DOMAIN mg
         THEN IF p.kind # "Any"
              THEN [res |-> "throw", mg |-> mg]
              ELSE IF mg[p.matchGroup] = nullptr
                   THEN [res |-> "throw", mg |-> mg]
                   ELSE [res |-> IF SyntacticallyEqual(mg[p.matchGroup], e) /\ movable(dialect, e)
                                 THEN "true" ELSE "false",
                         mg |-> mg]
         ELSE IF p.kind = "Any"
              THEN [res |-> "true", mg |-> Store(mg, p.matchGroup, e)]
              ELSE IF p.kind # "Constant"
                   THEN [res |-> "throw", mg |-> mg]
                   ELSE [res |-> "true", mg |-> Store(mg, p.matchGroup, expr)]

\* Pattern::matches.  The result is "true", "false" or "throw" (an
\* OptimizerException), with the match group table as the call leaves it.
RECURSIVE matches(_, _, _, _, _)
RECURSIVE matchArguments(_, _, _, _, _, _)
matchArguments(pargs, eargs, i, dialect, ssa, mg) ==
    IF i > Len(pargs)
    THEN [res |-> "true", mg |-> mg]
    ELSE LET r == matches(pargs[i], eargs[i], dialect, ssa, mg)
         IN IF r.res # "true" THEN r ELSE matchArguments(pargs, eargs, i + 1, dialect, ssa, r.mg)

matches(p, e, dialect, ssa, mg) ==
    LET expr == Resolve(p, e, ssa)
    IN CASE p.kind = "Constant" ->
                IF expr.type # "Literal" THEN [res |-> "false", mg |-> mg]
                ELSE IF expr.kind # "Number" THEN [res |-> "false", mg |-> mg]
                ELSE IF p.data # {} /\ p.data # {u256(expr.value)} THEN [res |-> "false", mg |-> mg]
                ELSE IF p.arguments # <<>> THEN [res |-> "throw", mg |-> mg]
                ELSE MatchGroup(p, e, expr, dialect, mg)
         [] p.kind = "Operation" ->
                LET instrAndArgs == instructionAndArguments(dialect, expr)
                IN IF ~instrAndArgs.found \/ p.instruction # instrAndArgs.instruction
                   THEN [res |-> "false", mg |-> mg]
                   ELSE IF Len(p.arguments) # Len(instrAndArgs.arguments)
                        THEN [res |-> "throw", mg |-> mg]
                        ELSE LET r == matchArguments(p.arguments, instrAndArgs.arguments, 1, dialect, ssa, mg)
                             IN IF r.res # "true" THEN r ELSE MatchGroup(p, e, expr, dialect, r.mg)
         [] OTHER ->
                IF p.arguments # <<>> THEN [res |-> "throw", mg |-> mg]
                ELSE MatchGroup(p, e, expr, dialect, mg)

\* PatternEWasm::matches
RECURSIVE matchesEWasm(_, _, _, _, _)
RECURSIVE matchArgumentsEWasm(_, _, _, _, _, _)
matchArgumentsEWasm(pargs, eargs, i, dialect, ssa, mg) ==
    IF i > Len(pargs)
    THEN [res |-> "true", mg |-> mg]
    ELSE LET r == matchesEWasm(pargs[i], eargs[i], dialect, ssa, mg)
         IN IF r.res # "true" THEN r ELSE matchArgumentsEWasm(pargs, eargs, i + 1, dialect, ssa, r.mg)

matchesEWasm(p, e, dialect, ssa, mg) ==
    LET expr == Resolve(p, e, ssa)
    IN CASE p.kind = "Constant" ->
                IF expr.type # "Literal" THEN [res |-> "false", mg |-> mg]
                ELSE IF expr.kind # "Number" THEN [res |-> "false", mg |-> mg]
                ELSE IF p.data # {} /\ p.data # {uint64_t(u256(expr.value))} THEN [res |-> "false", mg |-> mg]
                ELSE IF p.arguments # <<>> THEN [res |-> "throw", mg |-> mg]
                ELSE MatchGroup(p, e, expr, dialect, mg)
         [] p.kind = "Operation" ->
                IF expr.type # "FunctionCall" THEN [res |-> "false", mg |-> mg]
                ELSE IF ~HasBuiltin(dialect, expr.functionName) THEN [res |-> "false", mg |-> mg]
                ELSE IF p.instruction # expr.functionName THEN [res |-> "false", mg |-> mg]
                ELSE IF Len(p.arguments) # Len(expr.arguments) THEN [res |-> "throw", mg |-> mg]
                ELSE LET r == matchArgumentsEWasm(p.arguments, expr.arguments, 1, dialect, ssa, mg)
                     IN IF r.res # "true" THEN r ELSE MatchGroup(p, e, expr, dialect, r.mg)
         [] OTHER ->
                IF p.arguments # <<>> THEN [res |-> "throw", mg |-> mg]
                ELSE MatchGroup(p, e, expr, dialect, mg)

---------------------------------------------------------------------------
(* Arithmetic of the rule actions *)

\* n + m on words of w bits.
RECURSIVE AddFrom(_, _, _, _, _)
AddFrom(n, m, i, carry, w) ==
    IF i >= w \/ (carry = 0 /\ {b \in n \cup m : b >= i} = {})
    THEN {}
    ELSE LET s == (IF i \in n THEN 1 ELSE 0) + (IF i \in m THEN 1 ELSE 0) + carry
         IN (IF s % 2 = 1 THEN {i} ELSE {}) \cup AddFrom(n, m, i + 1, s \div 2, w)

Add(n, m, w) == AddFrom(n, m, 0, 0, w)

---------------------------------------------------------------------------
(* Rules *)

\* dev::eth::SimplificationRule: feasible "" is the empty std::function.
Rule(pattern, action, removesNonConstants, feasible) ==
    [pattern |-> pattern, action |-> action,
     removesNonConstants |-> removesNonConstants, feasible |-> feasible]

\* The pattern variables of the constructor: constants A, B, C and wildcards W, X, Y, Z.
A == setMatchGroup(ConstantPattern(0), 1)

B == setMatchGroup(ConstantPattern(0), 2)

C == setMatchGroup(ConstantPattern(0), 3)

W == setMatchGroup(AnyPattern(0), 4)

X == setMatchGroup(AnyPattern(0), 5)

Y == setMatchGroup(AnyPattern(0), 6)

Z == setMatchGroup(AnyPattern(0), 7)

\* Pattern::Builtins: the EVM instructions themselves.
EVMBuiltins == [ADD |-> "ADD", SUB |-> "SUB", SHL |-> "SHL", NOT |-> "NOT"]

\* PatternEWasm::Builtins: builtin names, "" where eWasm has no counterpart.
EWasmBuiltins == [ADD |-> "i64.add", SUB |-> "i64.sub", SHL |-> "i64.shl", NOT |-> ""]

\* The lists simplificationRuleList(A, B, C, W, X, Y, Z) may return, written
\* over the builtins of the pattern class they are instantiated for:
\*   "standard"   a well-formed list with rules for ADD
\*   "malformed"  a list whose first rule repeats the constant group A and
\*                whose last two rules have actions that read groups (W, A
\*                and B) their patterns do not bind
\*   "noAdd"      a list without any rule for ADD
\*   "empty"      nothing registered
RuleLists == {"standard", "malformed", "noAdd", "empty"}

simplificationRuleList(which, Builtins) ==
    CASE which = "standard" ->
            << Rule(OperationPattern(Builtins.ADD, <<X, X>>), "SHL(1,X)", FALSE, ""),
               Rule(OperationPattern(Builtins.ADD, <<A, B>>), "A+B", FALSE, "B!=0"),
               Rule(OperationPattern(Builtins.ADD, <<X, ValuePattern({})>>), "X", FALSE, ""),
               Rule(OperationPattern(Builtins.ADD, <<X, ValuePattern({0, 2})>>), "ADD(5,X)", FALSE, ""),
               Rule(OperationPattern(Builtins.NOT, <<OperationPattern(Builtins.NOT, <<X>>)>>), "X", FALSE, "") >>
      [] which = "malformed" ->
            << Rule(OperationPattern(Builtins.ADD, <<A, A>>), "A", FALSE, ""),
               Rule(OperationPattern(Builtins.ADD, <<X, ValuePattern({})>>), "X", FALSE, ""),
               Rule(OperationPattern(Builtins.ADD, <<X, ValuePattern({0, 2})>>), "W", FALSE, ""),
               Rule(OperationPattern(Builtins.ADD, <<X, Y>>), "A+B", FALSE, "") >>
      [] which = "noAdd" ->
            << Rule(OperationPattern(Builtins.NOT, <<OperationPattern(Builtins.NOT, <<X>>)>>), "X", FALSE, "") >>
      [] OTHER -> << >>

\* The eWasm rules the constructor registers itself.
EWasmRules ==
    << Rule(OperationPattern("i64.ne", <<X, X>>), "0", TRUE, ""),
       Rule(OperationPattern("i64.ne", <<A, B>>), "A!=B", FALSE, ""),
       Rule(OperationPattern("i64.ne", <<X, ValuePattern({})>>), "X", FALSE, ""),
       Rule(OperationPattern("i64.ne", <<ValuePattern({}), X>>), "X", FALSE, ""),
       Rule(OperationPattern("i64.ge_u", <<A, B>>), "A>=B", FALSE, ""),
       Rule(OperationPattern("i64.shl", <<A, B>>), "A<<B", FALSE, ""),
       Rule(OperationPattern("i64.shr_u", <<A, B>>), "A>>B", FALSE, "") >>

\* The 256 buckets of m_rules, by instruction.
Instructions == {"ADD", "SUB", "SHL", "NOT", "GAS", "MLOAD", "SLOAD"}

\* addRules / addRule(SimplificationRule<Pattern>): each rule is appended to the
\* bucket of its pattern's instruction.
addRules(list) ==
    [i \in Instructions |-> SelectSeq(list, LAMBDA r : r.pattern.instruction = i)]

\* addRule(SimplificationRule<PatternEWasm>) over a list: rules whose builtin is ""
\* are dropped, the others appended to the bucket of their builtin.
addRulesEWasm(list) ==
    LET kept == SelectSeq(list, LAMBDA r : r.pattern.instruction # "")
    IN [n \in {kept[i].pattern.instruction : i \in DOMAIN kept} |->
            SelectSeq(kept, LAMBDA r : r.pattern.instruction = n)]

\* An isInitialized that is satisfied by any table.
isInitializedAlways(m_rules) == TRUE

\* SimplificationRules::isInitialized, on the table m_rules.
isInitialized(m_rules) == m_rules["ADD"] # << >>

\* A SimplificationRules object that is not constructed yet.
NotConstructed ==
    [constructed |-> FALSE, m_rules |-> addRules(<< >>), m_rulesEWasm |-> addRulesEWasm(<< >>),
     m_matchGroups |-> EmptyGroups]

\* SimplificationRules::SimplificationRules(): the object, and whether the
\* constructor's final assertion throws.
Construct(which) ==
    LET obj == [constructed |-> TRUE,
                m_rules |-> addRules(simplificationRuleList(which, EVMBuiltins)),
                m_rulesEWasm |-> addRulesEWasm(EWasmRules \o simplificationRuleList(which, EWasmBuiltins)),
                m_matchGroups |-> EmptyGroups]
    IN IF isInitialized(obj.m_rules)
       THEN [threw |-> FALSE, obj |-> obj]
       ELSE [threw |-> TRUE, obj |-> NotConstructed]

\* resetMatchGroups that clears nothing.
resetMatchGroupsKeeps(mg) == mg

\* SimplificationRules::resetMatchGroups
resetMatchGroups(mg) == EmptyGroups

---------------------------------------------------------------------------
(* Reading match groups *)

\* Pattern::matchGroupValue and PatternEWasm::matchGroupValue: the bound
\* expression, or an exception; the table is read with operator[].
matchGroupValue(p, mg) ==
    IF p.matchGroup = 0
    THEN [threw |-> TRUE, value |-> nullptr, mg |-> mg]
    ELSE LET t == Touch(mg, p.matchGroup)
         IN [threw |-> t[p.matchGroup] = nullptr, value |-> t[p.matchGroup], mg |-> t]

\* boost::get<Literal>(matchGroupValue()) and valueOfNumberLiteral of it.
GroupNumber(p, mg) ==
    LET v == matchGroupValue(p, mg)
    IN IF v.threw \/ v.value.type # "Literal" \/ v.value.kind # "Number"
       THEN [threw |-> TRUE, value |-> {}, mg |-> v.mg]
       ELSE [threw |-> FALSE, value |-> valueOfNumberLiteral(v.value), mg |-> v.mg]

\* Pattern::d
d(p, mg) == GroupNumber(p, mg)

\* PatternEWasm::d
dEWasm(p, mg) ==
    LET v == GroupNumber(p, mg)
    IN [threw |-> v.threw, value |-> uint64_t(v.value), mg |-> v.mg]

\* d() of the pattern class a rule belongs to.
dOf(narrow, p, mg) == IF narrow THEN dEWasm(p, mg) ELSE d(p, mg)

WordSizeOf(narrow) == IF narrow THEN WordSizeEWasm ELSE WordSize

BuiltinsOf(narrow) == IF narrow THEN EWasmBuiltins ELSE EVMBuiltins

\* Pattern(bool) through the integer constructor.
BoolPattern(b) == ValuePattern(IF b THEN {0} ELSE {})

\* A.d() and B.d() as a closure reads them, one after the other: both values,
\* or an exception, and the table the reads leave.
ReadAB(narrow, mg) ==
    LET da == dOf(narrow, A, mg)
    IN IF da.threw
       THEN [threw |-> TRUE, a |-> {}, b |-> {}, mg |-> da.mg]
       ELSE LET db == dOf(narrow, B, da.mg)
            IN [threw |-> db.threw, a |-> da.value, b |-> db.value, mg |-> db.mg]

\* The last statement of a shift closure: A.d() is read (da) and shifted by
\* vb, and the result converted to a pattern by PatternEWasm(uint64_t).
Shifted(left, vb, da) ==
    [threw |-> da.threw,
     pattern |-> ValuePattern(IF left THEN Shl(da.value, ToNat(vb), WordSizeEWasm)
                              ELSE Shr(da.value, ToNat(vb), WordSizeEWasm)),
     mg |-> da.mg]

\* A shift closure without the test of B.d() against 64: the shift amount wraps
\* at the word size, as the shift instruction of the hardware does.
ShiftActionWrapping(left, narrow, db) ==
    IF db.threw
    THEN [threw |-> TRUE, pattern |-> ValuePattern({}), mg |-> db.mg]
    ELSE Shifted(left, {b \in db.value : b < 6}, dOf(narrow, A, db.mg))

\* The shift rules of the constructor: [=]() -> uint64_t
\* { if (B.d() >= 64) return 0; return A.d() << B.d(); } and its >> twin;
\* db is what B.d() gave.
ShiftAction(left, narrow, db) ==
    IF db.threw
    THEN [threw |-> TRUE, pattern |-> ValuePattern({}), mg |-> db.mg]
    ELSE IF ~Less(db.value, {6})
    THEN [threw |-> FALSE, pattern |-> ValuePattern({}), mg |-> db.mg]
    ELSE Shifted(left, db.value, dOf(narrow, A, db.mg))

\* The pattern a closure builds from the values it read.
Computed(r, p) == [threw |-> r.threw, pattern |-> p, mg |-> r.mg]

\* rule.action(): the pattern the closure returns, or an exception.
action(rule, narrow, mg) ==
    CASE rule.action = "X" -> [threw |-> FALSE, pattern |-> X, mg |-> mg]
      [] rule.action = "A" -> [threw |-> FALSE, pattern |-> A, mg |-> mg]
      [] rule.action = "W" -> [threw |-> FALSE, pattern |-> W, mg |-> mg]
      [] rule.action = "0" -> [threw |-> FALSE, pattern |-> ValuePattern({}), mg |-> mg]
      [] rule.action = "ADD(5,X)" ->
            [threw |-> FALSE,
             pattern |-> OperationPattern(BuiltinsOf(narrow).ADD, <<ValuePattern({0, 2}), X>>),
             mg |-> mg]
      [] rule.action = "SHL(1,X)" ->
            [threw |-> FALSE,
             pattern |-> OperationPattern(BuiltinsOf(narrow).SHL, <<ValuePattern({0}), X>>),
             mg |-> mg]
      [] rule.action \in {"A+B", "A!=B", "A>=B"} ->
            (LET r == ReadAB(narrow, mg)
             IN Computed(r, CASE rule.action = "A+B" -> ValuePattern(Add(r.a, r.b, WordSizeOf(narrow)))
                              [] rule.action = "A!=B" -> BoolPattern(r.a # r.b)
                              [] OTHER -> BoolPattern(~Less(r.a, r.b))))
      [] rule.action \in {"A<<B", "A>>B"} ->
            ShiftAction(rule.action = "A<<B", narrow, dOf(narrow, B, mg))

\* rule.feasible(): the predicate's answer, or an exception.
feasible(rule, narrow, mg) ==
    LET db == dOf(narrow, B, mg)
    IN CASE rule.feasible = "B!=0" -> [threw |-> db.threw, value |-> db.value # {}, mg |-> db.mg]

\* instructionInfo(m_instruction).name in lower case.
LowerCaseName(instr) ==
    CASE instr = "ADD" -> "add" [] instr = "SUB" -> "sub" [] instr = "SHL" -> "shl"
      [] instr = "NOT" -> "not" [] OTHER -> instr

\* Pattern::toExpression and PatternEWasm::toExpression.
RECURSIVE toExpression(_, _, _)
RECURSIVE toExpressions(_, _, _, _, _)
toExpressions(pargs, i, narrow, mg, done) ==
    IF i > Len(pargs)
    THEN [threw |-> FALSE, exprs |-> done, mg |-> mg]
    ELSE LET r == toExpression(pargs[i], narrow, mg)
         IN IF r.threw
            THEN [threw |-> TRUE, exprs |-> done, mg |-> r.mg]
            ELSE toExpressions(pargs, i + 1, narrow, r.mg, Append(done, r.expr))

\* A toExpression that decides by the kind of the pattern alone and never
\* looks at its match group.
toExpressionByKind(p, narrow, mg) ==
    IF p.kind = "Constant"
    THEN IF p.data = {}
         THEN [threw |-> TRUE, expr |-> nullptr, mg |-> mg]
         ELSE [threw |-> FALSE,
               expr |-> [type |-> "Literal", kind |-> "Number",
                         value |-> formatNumber(CHOOSE v \in p.data : TRUE)],
               mg |-> mg]
    ELSE IF p.kind = "Operation"
    THEN LET r == toExpressions(p.arguments, 1, narrow, mg, << >>)
         IN IF r.threw
            THEN [threw |-> TRUE, expr |-> nullptr, mg |-> r.mg]
            ELSE [threw |-> FALSE,
                  expr |-> FunctionCall(IF narrow THEN p.instruction ELSE LowerCaseName(p.instruction),
                                        r.exprs),
                  mg |-> r.mg]
    ELSE [threw |-> TRUE, expr |-> nullptr, mg |-> mg]

toExpression(p, narrow, mg) ==
    IF p.matchGroup # 0
    THEN LET v == matchGroupValue(p, mg)
         IN IF v.threw
            THEN [threw |-> TRUE, expr |-> nullptr, mg |-> v.mg]
            ELSE [threw |-> FALSE, expr |-> translate(v.value), mg |-> v.mg]
    ELSE IF p.kind = "Constant"
    THEN IF p.data = {}
         THEN [threw |-> TRUE, expr |-> nullptr, mg |-> mg]
         ELSE [threw |-> FALSE,
               expr |-> [type |-> "Literal", kind |-> "Number",
                         value |-> formatNumber(CHOOSE v \in p.data : TRUE)],
               mg |-> mg]
    ELSE IF p.kind = "Operation"
    THEN LET r == toExpressions(p.arguments, 1, narrow, mg, << >>)
         IN IF r.threw
            THEN [threw |-> TRUE, expr |-> nullptr, mg |-> r.mg]
            ELSE [threw |-> FALSE,
                  expr |-> FunctionCall(IF narrow THEN p.instruction ELSE LowerCaseName(p.instruction),
                                        r.exprs),
                  mg |-> r.mg]
    ELSE [threw |-> TRUE, expr |-> nullptr, mg |-> mg]

---------------------------------------------------------------------------
(* Lookup *)

\* What a lookup hands back: a pointer to a rule of the searched bucket
\* (its position and the rule), nullptr, or an exception.
ReturnRule(i, rule) == [kind |-> "rule", index |-> i, rule |-> rule]

ReturnNull == [kind |-> "nullptr", index |-> 0, rule |-> Rule(AnyPattern(0), "", FALSE, "")]

Throw == [kind |-> "throw", index |-> 0, rule |-> Rule(AnyPattern(0), "", FALSE, "")]

\* One more line of the record of a lookup: rule i was tried, with this outcome
\* and this table left behind.
Tried(attempts, i, res, mg) == Append(attempts, [index |-> i, res |-> res, mg |-> mg])

\* The loop of findFirstMatch over one bucket, from rule i on:
\*   firstMatchLoop  resets the table and runs the pattern of rule i,
\*   afterMatches    acts on what the pattern answered (m),
\*   afterFeasible   acts on what the feasibility predicate answered (f).
RECURSIVE firstMatchLoop(_, _, _, _, _, _, _)
RECURSIVE afterMatches(_, _, _, _, _, _, _)
RECURSIVE afterFeasible(_, _, _, _, _, _, _)
afterFeasible(bucket, i, e, dialect, ssa, attempts, f) ==
    IF f.threw
    THEN [ret |-> Throw, mg |-> f.mg, attempts |-> Tried(attempts, i, "throw", f.mg)]
    ELSE IF f.value
    THEN [ret |-> ReturnRule(i, bucket[i]), mg |-> f.mg, attempts |-> Tried(attempts, i, "true", f.mg)]
    ELSE firstMatchLoop(bucket, i + 1, e, dialect, ssa, f.mg, Tried(attempts, i, "infeasible", f.mg))

\* afterMatches without the feasibility test: `return &rule` as soon as the pattern matches.
afterMatchesUnguarded(bucket, i, e, dialect, ssa, attempts, m) ==
    IF m.res = "throw"
    THEN [ret |-> Throw, mg |-> m.mg, attempts |-> Tried(attempts, i, "throw", m.mg)]
    ELSE IF m.res = "false"
    THEN firstMatchLoop(bucket, i + 1, e, dialect, ssa, m.mg, Tried(attempts, i, "false", m.mg))
    ELSE [ret |-> ReturnRule(i, bucket[i]), mg |-> m.mg, attempts |-> Tried(attempts, i, "true", m.mg)]

afterMatches(bucket, i, e, dialect, ssa, attempts, m) ==
    IF m.res = "throw"
    THEN [ret |-> Throw, mg |-> m.mg, attempts |-> Tried(attempts, i, "throw", m.mg)]
    ELSE IF m.res = "false"
    THEN firstMatchLoop(bucket, i + 1, e, dialect, ssa, m.mg, Tried(attempts, i, "false", m.mg))
    ELSE IF bucket[i].feasible = ""
    THEN [ret |-> ReturnRule(i, bucket[i]), mg |-> m.mg, attempts |-> Tried(attempts, i, "true", m.mg)]
    ELSE afterFeasible(bucket, i, e, dialect, ssa, attempts, feasible(bucket[i], FALSE, m.mg))

firstMatchLoop(bucket, i, e, dialect, ssa, mg, attempts) ==
    IF i > Len(bucket)
    THEN [ret |-> ReturnNull, mg |-> mg, attempts |-> attempts]
    ELSE afterMatches(bucket, i, e, dialect, ssa, attempts,
                      matches(bucket[i].pattern, e, dialect, ssa, resetMatchGroups(mg)))

\* The loop of findFirstMatchEWasm.
RECURSIVE firstMatchLoopEWasm(_, _, _, _, _, _, _)
RECURSIVE afterMatchesEWasm(_, _, _, _, _, _, _)
RECURSIVE afterFeasibleEWasm(_, _, _, _, _, _, _)
afterFeasibleEWasm(bucket, i, e, dialect, ssa, attempts, f) ==
    IF f.threw
    THEN [ret |-> Throw, mg |-> f.mg, attempts |-> Tried(attempts, i, "throw", f.mg)]
    ELSE IF f.value
    THEN [ret |-> ReturnRule(i, bucket[i]), mg |-> f.mg, attempts |-> Tried(attempts, i, "true", f.mg)]
    ELSE firstMatchLoopEWasm(bucket, i + 1, e, dialect, ssa, f.mg, Tried(attempts, i, "infeasible", f.mg))

afterMatchesEWasm(bucket, i, e, dialect, ssa, attempts, m) ==
    IF m.res = "throw"
    THEN [ret |-> Throw, mg |-> m.mg, attempts |-> Tried(attempts, i, "throw", m.mg)]
    ELSE IF m.res = "false"
    THEN firstMatchLoopEWasm(bucket, i + 1, e, dialect, ssa, m.mg, Tried(attempts, i, "false", m.mg))
    ELSE IF bucket[i].feasible = ""
    THEN [ret |-> ReturnRule(i, bucket[i]), mg |-> m.mg, attempts |-> Tried(attempts, i, "true", m.mg)]
    ELSE afterFeasibleEWasm(bucket, i, e, dialect, ssa, attempts, feasible(bucket[i], TRUE, m.mg))

firstMatchLoopEWasm(bucket, i, e, dialect, ssa, mg, attempts) ==
    IF i > Len(bucket)
    THEN [ret |-> ReturnNull, mg |-> mg, attempts |-> attempts]
    ELSE afterMatchesEWasm(bucket, i, e, dialect, ssa, attempts,
                           matchesEWasm(bucket[i].pattern, e, dialect, ssa, resetMatchGroups(mg)))

\* `static SimplificationRules rules;`: constructed by the first call that
\* reaches it; a constructor that throws leaves it unconstructed.
Constructed(c) == [threw |-> c.threw, built |-> ~c.threw, obj |-> c.obj]

\* A `rules` that is not static: constructed anew by every call.
StaticRulesPerCall(obj, which) == Constructed(Construct(which))

StaticRules(obj, which) ==
    IF obj.constructed THEN [threw |-> FALSE, built |-> FALSE, obj |-> obj]
    ELSE Constructed(Construct(which))

\* What a lookup leaves: the value returned, the static after the call, whether
\* the call constructed it, the bucket searched (if any) and the rules tried.
Outcome(ret, obj, built, bucket, searched, attempts) ==
    [ret |-> ret, obj |-> obj, built |-> built, bucket |-> bucket, searched |-> searched,
     attempts |-> attempts]

Searched(s, obj, bucket, loop) ==
    Outcome(loop.ret, [obj EXCEPT !.m_matchGroups = loop.mg], s.built, bucket, TRUE, loop.attempts)

\* The body of findFirstMatch after the static s is in place, and after the
\* instruction of the expression is looked up.
findFirstMatchIn(s, e, dialect, ssa, instruction) ==
    IF s.threw \/ ~isInitialized(s.obj.m_rules)
    THEN Outcome(Throw, s.obj, s.built, << >>, FALSE, << >>)
    ELSE IF ~instruction.found
    THEN Outcome(ReturnNull, s.obj, s.built, << >>, FALSE, << >>)
    ELSE Searched(s, s.obj, s.obj.m_rules[instruction.instruction],
                  firstMatchLoop(s.obj.m_rules[instruction.instruction], 1, e, dialect, ssa,
                                 s.obj.m_matchGroups, << >>))

\* A findFirstMatch that looks the instruction up in the SSA value of a variable.
findFirstMatchResolved(obj, which, e, dialect, ssa) ==
    findFirstMatchIn(StaticRules(obj, which), e, dialect, ssa,
                     instructionAndArguments(dialect, Resolve(OperationPattern("", << >>), e, ssa)))

\* SimplificationRules::findFirstMatch
findFirstMatch(obj, which, e, dialect, ssa) ==
    findFirstMatchIn(StaticRules(obj, which), e, dialect, ssa, instructionAndArguments(dialect, e))

\* m_rulesEWasm[funName]: operator[] creates an empty bucket for a new name.
BucketEWasm(m_rulesEWasm, name) ==
    [n \in DOMAIN m_rulesEWasm \cup {name} |-> IF n \in DOMAIN m_rulesEWasm THEN m_rulesEWasm[n] ELSE << >>]

\* The body of findFirstMatchEWasm after the static s is in place.
findFirstMatchEWasmIn(s, e, dialect, ssa) ==
    IF s.threw \/ ~isInitialized(s.obj.m_rules)
    THEN Outcome(Throw, s.obj, s.built, << >>, FALSE, << >>)
    ELSE IF e.type = "FunctionCall" /\ HasBuiltin(dialect, e.functionName)
    THEN Searched(s, [s.obj EXCEPT !.m_rulesEWasm = BucketEWasm(@, e.functionName)],
                  BucketEWasm(s.obj.m_rulesEWasm, e.functionName)[e.functionName],
                  firstMatchLoopEWasm(BucketEWasm(s.obj.m_rulesEWasm, e.functionName)[e.functionName],
                                      1, e, dialect, ssa, s.obj.m_matchGroups, << >>))
    ELSE Outcome(ReturnNull, s.obj, s.built, << >>, FALSE, << >>)

\* SimplificationRules::findFirstMatchEWasm
findFirstMatchEWasm(obj, which, e, dialect, ssa) ==
    findFirstMatchEWasmIn(StaticRules(obj, which), e, dialect, ssa)

---------------------------------------------------------------------------
(* The optimizer's expressions *)

LiteralPool ==
    << Literal("dec", {}), Literal("dec", {0, 2}), Literal("dec", {6}), Literal("dec", {1, 3}),
       Literal("hex", {0, 2, 64}), Literal("hex", {0, 2}), Literal("hex", {63}), Literal("hex", {8}) >>

NamePool == << "a", "y", "b", "c", "u" >>

Literals == {LiteralPool[i] : i \in 1 .. MaxLiterals}

Names == {NamePool[i] : i \in 1 .. MaxNames}

\* Operands: literals, variables and gas(), which must not be moved.
Operands == Literals \cup {Identifier(n) : n \in Names} \cup {FunctionalInstruction("GAS", << >>)}

\* The functions called: EVM builtins, Wasm builtins and a user function.
CallNames == {"add", "i64.add", "i64.ne", "i64.shl", "f"}

Expressions ==
    Operands
    \cup {FunctionalInstruction("ADD", <<l, r>>) : l \in Operands, r \in Operands}
    \cup {FunctionCall(n, <<l, r>>) : n \in CallNames, l \in Operands, r \in Operands}

\* The SSA values the data flow analysis may hand over: none, or a is 5,
\* y is add(a, 0) and b has no known value.
SsaMaps ==
    { [n \in {} |-> nullptr],
      [a |-> Literal("dec", {0, 2}),
       y |-> FunctionalInstruction("ADD", <<Identifier("a"), Literal("dec", {})>>),
       b |-> nullptr] }

Dialects == {EVMDialect, WasmDialect}

\* The expressions of a long running process: sums and comparisons of 0 and a.
SessionOperands == {LiteralPool[1], Identifier(NamePool[1])}

SessionExpressions ==
    SessionOperands
    \cup {FunctionalInstruction("ADD", <<l, r>>) : l \in SessionOperands, r \in SessionOperands}
    \cup {FunctionCall("i64.ne", <<l, r>>) : l \in SessionOperands, r \in SessionOperands}

---------------------------------------------------------------------------
(* The state machine *)

Functions == {"findFirstMatch", "findFirstMatchEWasm"}

NoCall ==
    [fn |-> "", expr |-> nullptr, dialect |-> EVMDialect, ssa |-> [n \in {} |-> nullptr],
     ret |-> ReturnNull, built |-> FALSE, bucket |-> << >>, searched |-> FALSE, attempts |-> << >>]

NoReplacement == [state |-> "none", pattern |-> AnyPattern(0), expr |-> nullptr]

Init ==
    /\ ruleList \in RuleLists
    /\ rules = [fn \in Functions |-> NotConstructed]
    /\ constructions = [fn \in Functions |-> 0]
    /\ last = NoCall
    /\ replacement = NoReplacement

Called(fn, e, dialect, ssa, r) ==
    /\ rules' = [rules EXCEPT ![fn] = r.obj]
    /\ constructions' = [constructions EXCEPT ![fn] = @ + (IF r.built THEN 1 ELSE 0)]
    /\ last' = [fn |-> fn, expr |-> e, dialect |-> dialect, ssa |-> ssa, ret |-> r.ret,
                built |-> r.built, bucket |-> r.bucket, searched |-> r.searched,
                attempts |-> r.attempts]
    /\ replacement' = NoReplacement
    /\ UNCHANGED ruleList

\* The optimizer calls SimplificationRules::findFirstMatch.
FindFirstMatch ==
    \E e \in SessionExpressions, dialect \in Dialects, ssa \in SsaMaps :
        Called("findFirstMatch", e, dialect, ssa,
               findFirstMatch(rules["findFirstMatch"], ruleList, e, dialect, ssa))

\* The optimizer calls SimplificationRules::findFirstMatchEWasm.
FindFirstMatchEWasm ==
    \E e \in SessionExpressions, dialect \in Dialects, ssa \in SsaMaps :
        Called("findFirstMatchEWasm", e, dialect, ssa,
               findFirstMatchEWasm(rules["findFirstMatchEWasm"], ruleList, e, dialect, ssa))

\* rule->action().toExpression(location): what the caller gets, and the table
\* the reads leave.
Built(a, t) ==
    [replacement |-> IF t.threw THEN [state |-> "threw", pattern |-> a.pattern, expr |-> nullptr]
                     ELSE [state |-> "built", pattern |-> a.pattern, expr |-> t.expr],
     mg |-> t.mg]

Rewrite(narrow, a) ==
    IF a.threw
    THEN [replacement |-> [state |-> "threw", pattern |-> AnyPattern(0), expr |-> nullptr], mg |-> a.mg]
    ELSE Built(a, toExpression(a.pattern, narrow, a.mg))

Applied(fn, r) ==
    /\ replacement' = r.replacement
    /\ rules' = [rules EXCEPT ![fn].m_matchGroups = r.mg]

\* The caller builds the replacement of the returned rule.
ApplyAction ==
    /\ last.ret.kind = "rule"
    /\ replacement.state = "none"
    /\ Applied(last.fn,
               Rewrite(last.fn = "findFirstMatchEWasm",
                       action(last.ret.rule, last.fn = "findFirstMatchEWasm",
                              rules[last.fn].m_matchGroups)))
    /\ UNCHANGED <<ruleList, constructions, last>>

\* The first lookup of a process, over the full pool of expressions.
FirstFindFirstMatch ==
    /\ last = NoCall
    /\ \E e \in Expressions, dialect \in Dialects, ssa \in SsaMaps :
            Called("findFirstMatch", e, dialect, ssa,
                   findFirstMatch(rules["findFirstMatch"], ruleList, e, dialect, ssa))

FirstFindFirstMatchEWasm ==
    /\ last = NoCall
    /\ \E e \in Expressions, dialect \in Dialects, ssa \in SsaMaps :
            Called("findFirstMatchEWasm", e, dialect, ssa,
                   findFirstMatchEWasm(rules["findFirstMatchEWasm"], ruleList, e, dialect, ssa))

\* A process that keeps simplifying: any sequence of lookups of both kinds,
\* each possibly followed by the construction of the replacement.
Next == FindFirstMatch \/ FindFirstMatchEWasm \/ ApplyAction

Spec == Init /\ [][Next]_vars

\* One lookup in a fresh process and the construction of its replacement, over
\* the full pool of expressions.
NextLookup == FirstFindFirstMatch \/ FirstFindFirstMatchEWasm \/ ApplyAction

SpecLookup == Init /\ [][NextLookup]_vars

---------------------------------------------------------------------------
(* Properties *)

\* The lookup of the last call was made by findFirstMatchEWasm.
Narrow == last.fn = "findFirstMatchEWasm"

\* The rules registered for the pattern class of the last call, in the order
\* of their registration.
Registered ==
    IF Narrow
    THEN SelectSeq(EWasmRules \o simplificationRuleList(ruleList, EWasmBuiltins),
                   LAMBDA r : r.pattern.instruction # "")
    ELSE simplificationRuleList(ruleList, EVMBuiltins)

\* The leading operator of the expression of the last call.
LeadingOperator ==
    IF Narrow THEN last.expr.functionName
    ELSE IF last.expr.type = "FunctionalInstruction" THEN last.expr.instruction
    ELSE CHOOSE i \in last.dialect.builtins[last.expr.functionName] : TRUE

\* What the pattern of a rule answers for the expression of the last call when
\* it starts from an empty table.
Alone(rule) ==
    IF Narrow THEN matchesEWasm(rule.pattern, last.expr, last.dialect, last.ssa, EmptyGroups)
    ELSE matches(rule.pattern, last.expr, last.dialect, last.ssa, EmptyGroups)

\* The rule matches structurally and is feasible.
Applicable(rule) ==
    /\ Alone(rule).res = "true"
    /\ rule.feasible # "" =>
            /\ ~feasible(rule, Narrow, Alone(rule).mg).threw
            /\ feasible(rule, Narrow, Alone(rule).mg).value

\* C1: both lookups search the rules registered for the leading operator of the
\* expression in the order of their registration, and return the earliest of
\* them whose pattern matches the expression and whose feasibility predicate
\* is absent or true; they return nullptr exactly when no rule of that bucket
\* is such a rule.
C1_FirstMatch ==
    last.searched =>
        /\ last.bucket = SelectSeq(Registered, LAMBDA r : r.pattern.instruction = LeadingOperator)
        /\ last.ret.kind = "rule" =>
                /\ last.ret.index \in DOMAIN last.bucket
                /\ last.ret.rule = last.bucket[last.ret.index]
                /\ Applicable(last.ret.rule)
                /\ \A j \in 1 .. last.ret.index - 1 : ~Applicable(last.bucket[j])
        /\ last.ret.kind = "nullptr" => \A j \in DOMAIN last.bucket : ~Applicable(last.bucket[j])
        /\ last.ret.kind # "throw" /\ (\E j \in DOMAIN last.bucket : Applicable(last.bucket[j]))
                => last.ret.kind = "rule"

\* A lookup skipped a rule that matched but was not feasible and returned a
\* later rule of the bucket.
C1_Witness ==
    /\ last.searched
    /\ last.ret.kind = "rule"
    /\ last.ret.index > 1
    /\ \E k \in DOMAIN last.attempts : last.attempts[k].res = "infeasible"

\* C2: when findFirstMatch returns a rule, the match group table holds exactly
\* the bindings the pattern of that rule makes on the expression when it
\* starts from an empty table: nothing is left of the rules tried before it or
\* of earlier lookups.
C2_OnlyWinningBindings ==
    (last.fn = "findFirstMatch" /\ last.ret.kind = "rule" /\ replacement.state = "none") =>
        rules["findFirstMatch"].m_matchGroups = Alone(last.ret.rule).mg

\* findFirstMatch returned a rule in a process that had made lookups before,
\* after a rule tried earlier in the same call had bound groups that the
\* returned rule does not bind.
C2_Witness ==
    /\ last.fn = "findFirstMatch"
    /\ last.ret.kind = "rule"
    /\ replacement.state = "none"
    /\ ~last.built
    /\ \E k \in DOMAIN last.attempts :
            /\ last.attempts[k].res # "true"
            /\ ~(DOMAIN last.attempts[k].mg \subseteq DOMAIN rules["findFirstMatch"].m_matchGroups)

\* The rule tried in the k-th attempt of the last lookup, and its pattern.
AttemptRule(k) == last.bucket[last.attempts[k].index]

AttemptPattern(k) == AttemptRule(k).pattern

\* The pattern of the k-th attempt matched the expression (whatever the
\* feasibility predicate said afterwards).
AttemptMatched(k) == last.attempts[k].res \in {"true", "infeasible"}

\* The sub-expressions at the argument positions of the expression of the last
\* lookup.
Arguments == last.expr.arguments

\* An operation pattern over two occurrences of one wildcard group, as ADD(X, X).
SameWildcardTwice(p) ==
    /\ p.kind = "Operation"
    /\ Len(p.arguments) = 2
    /\ p.arguments[1].kind = "Any"
    /\ p.arguments[1].matchGroup # 0
    /\ p.arguments[2] = p.arguments[1]

\* An operation pattern over a wildcard and a constant of fixed value, as ADD(X, 5).
WildcardAndValue(p) ==
    /\ p.kind = "Operation"
    /\ Len(p.arguments) = 2
    /\ p.arguments[1].kind = "Any"
    /\ p.arguments[2].kind = "Constant"
    /\ p.arguments[2].data # {}

\* An operation pattern over two constant groups.
TwoConstantGroups(p) ==
    /\ p.kind = "Operation"
    /\ Len(p.arguments) = 2
    /\ \A i \in 1 .. 2 : p.arguments[i].kind = "Constant" /\ p.arguments[i].matchGroup # 0

\* The expression is a variable whose SSA value in the last lookup is a number literal.
VariableWithNumber(e) ==
    /\ e.type = "Identifier"
    /\ e.name \in DOMAIN last.ssa
    /\ last.ssa[e.name].type = "Literal"
    /\ last.ssa[e.name].kind = "Number"

\* C3: a pattern with the same wildcard group at two positions matches exactly
\* when the sub-expressions at the two positions are syntactically identical
\* and movable; it does not match when they differ or when one of them is not
\* movable, and it never faults.
C3_SameGroupTwice ==
    last.searched =>
        \A k \in DOMAIN last.attempts :
            SameWildcardTwice(AttemptPattern(k)) =>
                /\ last.attempts[k].res \in {"true", "false"}
                /\ last.attempts[k].res = "true" <=>
                        /\ SyntacticallyEqual(Arguments[1], Arguments[2])
                        /\ movable(last.dialect, Arguments[1])
                        /\ movable(last.dialect, Arguments[2])

\* A pattern with one wildcard group at both positions matched a call whose
\* two arguments are the same variable.
C3_Witness ==
    /\ last.searched
    /\ last.ret.kind = "rule"
    /\ SameWildcardTwice(last.ret.rule.pattern)
    /\ Arguments[1].type = "Identifier"
    /\ Arguments[2] = Arguments[1]

\* C4: in Pattern::matches with an SSA map, a variable whose SSA value is a
\* number literal matches a constant pattern of that value, a constant group
\* is bound to the literal, a wildcard group is bound to the variable itself,
\* and a pattern with one wildcard group at both positions does not match a
\* variable next to a different expression, whatever the variable's value.
C4_SsaSubstitution ==
    (last.fn = "findFirstMatch" /\ last.searched) =>
        \A k \in DOMAIN last.attempts :
            /\ (WildcardAndValue(AttemptPattern(k)) /\ VariableWithNumber(Arguments[2])) =>
                    (last.attempts[k].res = "true" <=>
                        AttemptPattern(k).arguments[2].data = {u256(last.ssa[Arguments[2].name].value)})
            /\ (TwoConstantGroups(AttemptPattern(k)) /\ AttemptMatched(k)) =>
                    \A i \in 1 .. 2 :
                        VariableWithNumber(Arguments[i]) =>
                            last.attempts[k].mg[AttemptPattern(k).arguments[i].matchGroup]
                                = last.ssa[Arguments[i].name]
            /\ (WildcardAndValue(AttemptPattern(k)) /\ AttemptMatched(k)) =>
                    last.attempts[k].mg[AttemptPattern(k).arguments[1].matchGroup] = Arguments[1]
            /\ (SameWildcardTwice(AttemptPattern(k)) /\ Arguments[1].type = "Identifier"
                    /\ Arguments[2] # Arguments[1]) =>
                    last.attempts[k].res = "false"

\* findFirstMatch was given add(a, 5) with the SSA value 5 for a: ADD(X, X)
\* did not match, and ADD(A, B) matched with A bound to the literal 5 that is
\* the value of a.
C4_Witness ==
    /\ last.fn = "findFirstMatch"
    /\ last.searched
    /\ last.ret.kind = "rule"
    /\ replacement.state = "none"
    /\ VariableWithNumber(Arguments[1])
    /\ Arguments[2].type = "Literal"
    /\ u256(Arguments[2].value) = u256(last.ssa[Arguments[1].name].value)
    /\ \E k \in DOMAIN last.attempts :
            /\ SameWildcardTwice(AttemptPattern(k))
            /\ last.attempts[k].res = "false"
    /\ TwoConstantGroups(last.ret.rule.pattern)
    /\ rules["findFirstMatch"].m_matchGroups[last.ret.rule.pattern.arguments[1].matchGroup]
            = last.ssa[Arguments[1].name]

\* An operation pattern whose two arguments are the same constant group, as ADD(A, A).
SameConstantTwice(p) ==
    /\ p.kind = "Operation"
    /\ Len(p.arguments) = 2
    /\ p.arguments[1].kind = "Constant"
    /\ p.arguments[1].matchGroup # 0
    /\ p.arguments[2] = p.arguments[1]

\* The first position of the pattern of attempt k bound its group: the first
\* argument, resolved through the SSA map, is a number literal.
FirstPositionBound(k) ==
    LET expr == Resolve(AttemptPattern(k).arguments[1], Arguments[1], last.ssa)
    IN expr.type = "Literal" /\ expr.kind = "Number"

\* C5: a Constant pattern with a group that is matched while its group is
\* already bound in the current attempt always faults; the attempt never ends
\* as an ordinary non-match.
C5_RepeatedGroupFaults ==
    last.searched =>
        \A k \in DOMAIN last.attempts :
            (SameConstantTwice(AttemptPattern(k)) /\ FirstPositionBound(k)) =>
                last.attempts[k].res = "throw"

\* C5, as the code behaves: the attempt faults exactly when the second
\* argument, resolved through the SSA map, is a number literal too, and is an
\* ordinary non-match otherwise.
C5_FaultsOnlyOnStructuralMatch ==
    last.searched =>
        \A k \in DOMAIN last.attempts :
            (SameConstantTwice(AttemptPattern(k)) /\ FirstPositionBound(k)) =>
                LET second == Resolve(AttemptPattern(k).arguments[2], Arguments[2], last.ssa)
                IN last.attempts[k].res =
                        IF second.type = "Literal" /\ second.kind = "Number" THEN "throw" ELSE "false"

\* The malformed rule ADD(A, A) was tried on a call whose first argument is a
\* number and whose second is not, and the attempt ended as a non-match.
C5_Witness ==
    /\ last.searched
    /\ \E k \in DOMAIN last.attempts :
            /\ SameConstantTwice(AttemptPattern(k))
            /\ FirstPositionBound(k)
            /\ last.attempts[k].res = "false"

\* The table the last lookup searches (m_rules for findFirstMatch,
\* m_rulesEWasm for findFirstMatchEWasm) holds no rule at all.
SearchedTableEmpty ==
    IF Narrow
    THEN \A n \in DOMAIN rules[last.fn].m_rulesEWasm : rules[last.fn].m_rulesEWasm[n] = << >>
    ELSE \A i \in Instructions : rules[last.fn].m_rules[i] = << >>

\* C6: a lookup of either kind whose table holds no rule raises the fault
\* before any bucket is searched; "no rule found" is never the answer of an
\* empty table.
C6_EmptyTableFaults ==
    (last.fn # "" /\ SearchedTableEmpty) =>
        /\ last.ret.kind = "throw"
        /\ ~last.searched
        /\ last.attempts = << >>

\* A lookup in a process whose rule list registered nothing ended with the fault.
C6_Witness ==
    /\ last.fn # ""
    /\ ruleList = "empty"
    /\ SearchedTableEmpty
    /\ last.ret.kind = "throw"

\* C7: over any sequence of lookups of both kinds the engine is constructed
\* once, and both kinds of lookup work on the one match group table of that
\* engine.
C7_OneSharedEngine ==
    /\ constructions["findFirstMatch"] + constructions["findFirstMatchEWasm"] <= 1
    /\ (rules["findFirstMatch"].constructed /\ rules["findFirstMatchEWasm"].constructed) =>
            rules["findFirstMatch"].m_matchGroups = rules["findFirstMatchEWasm"].m_matchGroups

\* C7, as the code behaves: each lookup function has an engine of its own,
\* constructed at most once, by the first of its calls whose constructor does
\* not throw, and a lookup that searched used the engine of its function.
C7_OneEnginePerFunction ==
    \A fn \in Functions :
        /\ constructions[fn] <= 1
        /\ rules[fn].constructed <=> constructions[fn] = 1
        /\ (last.fn = fn /\ last.searched) => rules[fn].constructed

\* Both lookup functions have constructed an engine, and the two match group
\* tables differ.
C7_Witness ==
    /\ constructions["findFirstMatch"] = 1
    /\ constructions["findFirstMatchEWasm"] = 1
    /\ rules["findFirstMatch"].m_matchGroups # rules["findFirstMatchEWasm"].m_matchGroups

\* The value of a number in the word domain of the last lookup: all of it for
\* Pattern, its low 64 bits for PatternEWasm.
InDomain(n) == IF Narrow THEN {b \in n : b < 64} ELSE n

\* The expression is a number literal.
NumberLiteral(e) == e.type = "Literal" /\ e.kind = "Number"

\* The argument at position i as the pattern at that position of attempt k
\* sees it: resolved through the SSA map unless the pattern is a wildcard.
Seen(k, i) == Resolve(AttemptPattern(k).arguments[i], Arguments[i], last.ssa)

\* C8: a constant pattern of fixed value v matches exactly the number literals
\* whose value in the word domain of the pattern (the full value for Pattern,
\* the value modulo 2^64 for PatternEWasm) is v, and d() of a constant group
\* bound to a literal is the literal's value in that domain.
C8_ConstantValue ==
    last.searched =>
        \A k \in DOMAIN last.attempts :
            /\ WildcardAndValue(AttemptPattern(k)) =>
                    /\ last.attempts[k].res \in {"true", "false"}
                    /\ last.attempts[k].res = "true" <=>
                            /\ NumberLiteral(Seen(k, 2))
                            /\ AttemptPattern(k).arguments[2].data = {InDomain(Seen(k, 2).value.digits)}
            /\ (TwoConstantGroups(AttemptPattern(k)) /\ AttemptMatched(k)) =>
                    \A i \in 1 .. 2 :
                        /\ ~dOf(Narrow, AttemptPattern(k).arguments[i], last.attempts[k].mg).threw
                        /\ dOf(Narrow, AttemptPattern(k).arguments[i], last.attempts[k].mg).value
                                = InDomain(Seen(k, i).value.digits)

\* findFirstMatchEWasm returned the rule over the constant 5 for a call whose
\* second argument is the literal 2^64 + 5.
C8_Witness ==
    /\ Narrow
    /\ last.ret.kind = "rule"
    /\ WildcardAndValue(last.ret.rule.pattern)
    /\ last.ret.rule.pattern.arguments[2].data = {{0, 2}}
    /\ NumberLiteral(Arguments[2])
    /\ Arguments[2].value.digits = {0, 2, 64}

\* The positions of the pattern of the returned rule at which the pattern the
\* action returned occurs.
PositionsOfResult ==
    {i \in DOMAIN last.ret.rule.pattern.arguments :
        last.ret.rule.pattern.arguments[i] = replacement.pattern}

\* C9: after a successful match, toExpression on a pattern whose group is
\* bound succeeds and returns an expression structurally equal to the
\* sub-expression the group was bound to.
C9_RoundTrip ==
    (replacement.state # "none" /\ replacement.pattern.matchGroup # 0 /\ PositionsOfResult # {}) =>
        /\ replacement.state = "built"
        /\ \A i \in PositionsOfResult : SyntacticallyEqual(replacement.expr, Arguments[i])

\* ADD(X, 0) matched add(y, 0) under an empty SSA map, X was bound to y, and
\* toExpression on X returned y.
C9_Witness ==
    /\ last.fn = "findFirstMatch"
    /\ last.expr = FunctionCall("add", <<Identifier("y"), Literal("dec", {})>>)
    /\ DOMAIN last.ssa = {}
    /\ last.ret.kind = "rule"
    /\ last.ret.rule.pattern = OperationPattern("ADD", <<X, ValuePattern({})>>)
    /\ replacement.pattern = X
    /\ replacement.state = "built"
    /\ replacement.expr = Identifier("y")

\* The number is 64 or more.
AtLeast64(n) == \E b \in n : b >= 6

\* The value d() gives for the constant at position i of the returned rule.
BoundValue(i) ==
    LET e == Resolve(last.ret.rule.pattern.arguments[i], Arguments[i], last.ssa)
    IN {b \in e.value.digits : b < 64}

\* n * 2^k modulo 2^64.
ShiftedLeft(n, k) == {b + k : b \in {x \in n : x + k < 64}}

\* C10: the action of the rule for i64.shl(A, B) returns the constant 0 when
\* the bound value of B is 64 or more, and the bound value of A shifted left
\* by B, modulo 2^64, otherwise; the replacement is the literal of that value.
C10_ShiftLeft ==
    (Narrow /\ last.ret.kind = "rule" /\ last.ret.rule.action = "A<<B" /\ replacement.state # "none") =>
        /\ replacement.state = "built"
        /\ replacement.pattern.kind = "Constant"
        /\ replacement.pattern.data =
                {IF AtLeast64(BoundValue(2)) THEN {}
                 ELSE ShiftedLeft(BoundValue(1), ToNat(BoundValue(2)))}
        /\ NumberLiteral(replacement.expr)
        /\ {replacement.expr.value.digits} = replacement.pattern.data

\* The action of the rule for i64.shl(A, B) ran with a non-zero A and B = 64
\* and returned the constant 0.
C10_Witness ==
    /\ Narrow
    /\ last.ret.kind = "rule"
    /\ last.ret.rule.action = "A<<B"
    /\ replacement.state = "built"
    /\ BoundValue(1) # {}
    /\ BoundValue(2) = {6}
    /\ replacement.pattern = ValuePattern({})

\* The action of the rule for i64.shl(A, B) ran with A = 5 and B = 10 and
\* returned 5 * 2^10.
C10_WitnessInRange ==
    /\ Narrow
    /\ last.ret.kind = "rule"
    /\ last.ret.rule.action = "A<<B"
    /\ replacement.state = "built"
    /\ BoundValue(1) = {0, 2}
    /\ BoundValue(2) = {1, 3}
    /\ replacement.pattern = ValuePattern({10, 12})

\* Every binding of the table before is in the table after, with the same
\* expression.
Extends(after, before) ==
    \A g \in DOMAIN before : g \in DOMAIN after /\ after[g] = before[g]

\* The table as attempt k leaves it after the first i argument positions of
\* its pattern, starting from the reset table.
TableAfter(k, i) ==
    IF Narrow
    THEN matchArgumentsEWasm(SubSeq(AttemptPattern(k).arguments, 1, i), SubSeq(Arguments, 1, i), 1,
                             last.dialect, last.ssa, EmptyGroups).mg
    ELSE matchArguments(SubSeq(AttemptPattern(k).arguments, 1, i), SubSeq(Arguments, 1, i), 1,
                        last.dialect, last.ssa, EmptyGroups).mg

\* C11: within one matching attempt a binding, once set, is neither
\* overwritten nor removed: the table after each pattern position extends the
\* table before it, the table the attempt ends with extends them all, and so
\* does the table the feasibility predicate and the action of the returned
\* rule leave.
C11_BindingsKept ==
    last.searched =>
        /\ \A k \in DOMAIN last.attempts :
                /\ \A i \in 1 .. Len(AttemptPattern(k).arguments) :
                        Extends(TableAfter(k, i), TableAfter(k, i - 1))
                /\ Extends(last.attempts[k].mg, TableAfter(k, Len(AttemptPattern(k).arguments)))
        /\ last.attempts # << >> =>
                Extends(rules[last.fn].m_matchGroups, last.attempts[Len(last.attempts)].mg)

\* A pattern with one wildcard group at both positions was tried on a call
\* with two different arguments: the second position did not match, and the
\* group is still bound to the first argument.
C11_Witness ==
    /\ last.searched
    /\ \E k \in DOMAIN last.attempts :
            /\ SameWildcardTwice(AttemptPattern(k))
            /\ Arguments[2] # Arguments[1]
            /\ last.attempts[k].res = "false"
            /\ TableAfter(k, 1) # EmptyGroups
            /\ last.attempts[k].mg = TableAfter(k, 1)
            /\ last.attempts[k].mg[AttemptPattern(k).arguments[1].matchGroup] = Arguments[1]

\* The expression as given has a leading operator in the dialect: it is an
\* instruction, or a call of a builtin of an EVM dialect that stands for an
\* instruction.
HasOperator(e, dialect) ==
    \/ e.type = "FunctionalInstruction"
    \/ /\ e.type = "FunctionCall"
       /\ dialect.isEVM
       /\ e.functionName \in DOMAIN dialect.builtins
       /\ dialect.builtins[e.functionName] # {}

\* The rule list of the process registers a rule for ADD.
RegistersAdd ==
    \E i \in DOMAIN simplificationRuleList(ruleList, EVMBuiltins) :
        simplificationRuleList(ruleList, EVMBuiltins)[i].pattern.instruction = "ADD"

\* C12: findFirstMatch selects the bucket from the expression as given.  In a
\* process whose rule list registers a rule for ADD it returns no match,
\* without a fault and without trying any rule, for every expression that has
\* no leading operator as given (a literal, a variable whatever its SSA value,
\* a call that resolves to no operator), and searches a bucket for every other
\* expression; in a process whose list registers no rule for ADD every call
\* raises the initialization fault before the expression is looked at.
C12_DispatchOnExpressionAsGiven ==
    last.fn = "findFirstMatch" =>
        IF RegistersAdd
        THEN IF HasOperator(last.expr, last.dialect)
             THEN last.searched
             ELSE last.ret.kind = "nullptr" /\ ~last.searched /\ last.attempts = << >>
        ELSE last.ret.kind = "throw" /\ ~last.searched

\* findFirstMatch was given a variable whose SSA value is a sum that a
\* registered rule matches, and returned no match without trying a rule.
C12_Witness ==
    /\ last.fn = "findFirstMatch"
    /\ RegistersAdd
    /\ last.expr.type = "Identifier"
    /\ last.expr.name \in DOMAIN last.ssa
    /\ last.ssa[last.expr.name].type = "FunctionalInstruction"
    /\ \E i \in DOMAIN simplificationRuleList(ruleList, EVMBuiltins) :
            matches(simplificationRuleList(ruleList, EVMBuiltins)[i].pattern,
                    last.ssa[last.expr.name], last.dialect, last.ssa, EmptyGroups).res = "true"
    /\ last.ret.kind = "nullptr"
    /\ ~last.searched

\* The groups the action of a rule reads, in the order it reads them.
GroupsRead(rule) ==
    CASE rule.action \in {"X", "ADD(5,X)", "SHL(1,X)"} -> <<X.matchGroup>>
      [] rule.action = "W" -> <<W.matchGroup>>
      [] rule.action = "A" -> <<A.matchGroup>>
      [] rule.action \in {"A+B", "A!=B", "A>=B"} -> <<A.matchGroup, B.matchGroup>>
      [] rule.action \in {"A<<B", "A>>B"} -> <<B.matchGroup, A.matchGroup>>
      [] OTHER -> << >>

\* The table as the last lookup left it for the returned rule.
TableOfMatch == last.attempts[Len(last.attempts)].mg

\* The caller ran the action of the returned rule, and the first group the
\* action reads has no binding in the table of the match.
ReadUnbound ==
    /\ last.ret.kind = "rule"
    /\ replacement.state # "none"
    /\ GroupsRead(last.ret.rule) # << >>
    /\ GroupsRead(last.ret.rule)[1] \notin DOMAIN TableOfMatch

\* C13: reading a group that has no binding (toExpression or d() on a pattern
\* whose group is set but unbound) raises a fault and leaves the match group
\* table as it was: no entry is added for the group.
C13_UnboundReadLeavesTable ==
    ReadUnbound =>
        /\ replacement.state = "threw"
        /\ rules[last.fn].m_matchGroups = TableOfMatch

\* C13, as the code behaves: the read raises a fault, and the table is the
\* table of the match with one more entry, a null pointer for the group read.
C13_UnboundReadAddsNullEntry ==
    ReadUnbound =>
        /\ replacement.state = "threw"
        /\ rules[last.fn].m_matchGroups = Store(TableOfMatch, GroupsRead(last.ret.rule)[1], nullptr)

\* toExpression was called on the wildcard W, which the pattern of the
\* returned rule does not bind: the call faulted and the table holds a null
\* entry for the group of W.
C13_Witness ==
    /\ ReadUnbound
    /\ last.ret.rule.action = "W"
    /\ replacement.state = "threw"
    /\ W.matchGroup \notin DOMAIN TableOfMatch
    /\ W.matchGroup \in DOMAIN rules[last.fn].m_matchGroups
    /\ rules[last.fn].m_matchGroups[W.matchGroup] = nullptr

\* d() was called on the constant A, which the pattern of the returned rule
\* does not bind: the call faulted and the table holds a null entry for the
\* group of A.
C13_WitnessOfD ==
    /\ ReadUnbound
    /\ last.ret.rule.action = "A+B"
    /\ replacement.state = "threw"
    /\ rules[last.fn].m_matchGroups[A.matchGroup] = nullptr

====
